---- MODULE Spec2Model ----
(***************************************************************************)
(* MotionEstimation (core/model/layers/motion_etimation.py): the layer     *)
(* that regresses a trajectory from an encoded feature and target          *)
(* locations.  forward / loss / inference are modelled on tensors given    *)
(* as a shape and row-major data.  Reals are kept on a fixed-point grid:   *)
(* a tensor entry n stands for n / Resolution, a loss entry n stands for   *)
(* n / (2 * Resolution^2) (divided by den for the mean), so the smooth-L1  *)
(* arithmetic is exact.                                                    *)
(***************************************************************************)
EXTENDS Integers, Sequences, FiniteSets, TLC

VARIABLES in_channels, horizon, hidden_dim, traj_pred, built, pc, call, ret, ncalls

vars == <<in_channels, horizon, hidden_dim, traj_pred, built, pc, call, ret, ncalls>>

(* ---------------------------- bounds ----------------------------------- *)
MaxBatch == 2
MaxM == 2
MaxCh == 2
MaxHorizon == 2
MaxHidden == 2
Resolution == 2
NumSeeds == 2
MaxCalls == 2

(* ------------------------- tensor helpers ------------------------------ *)
RECURSIVE SumSeq(_)
SumSeq(s) == IF s = <<>> THEN 0 ELSE Head(s) + SumSeq(Tail(s))

RECURSIVE Prod(_)
Prod(s) == IF s = <<>> THEN 1 ELSE Head(s) * Prod(Tail(s))

Abs(x) == IF x < 0 THEN -x ELSE x

RECURSIVE SqrtFrom(_, _)
SqrtFrom(n, r) == IF (r + 1) * (r + 1) > n THEN r ELSE SqrtFrom(n, r + 1)

ISqrt(n) == SqrtFrom(n, 0)

Tensor(shape, data) == [shape |-> shape, data |-> data]

NoTensor == Tensor(<<0>>, <<>>)

dim(t) == Len(t.shape)

LastDim(t) == t.shape[Len(t.shape)]

NumRows(t) == Prod(SubSeq(t.shape, 1, Len(t.shape) - 1))

Row(t, r) == SubSeq(t.data, (r - 1) * LastDim(t) + 1, r * LastDim(t))

RECURSIVE Flatten(_)
Flatten(rows) == IF rows = <<>> THEN <<>> ELSE Head(rows) \o Flatten(Tail(rows))

\* a tensor whose leading dimensions are lead and whose rows along the last
\* dimension are rows (all of width w)
FromRows(lead, w, rows) == Tensor(Append(lead, w), Flatten(rows))

LeadShape(t) == SubSeq(t.shape, 1, Len(t.shape) - 1)

(* Tensor.unsqueeze(1): legal for dim() >= 1, the data is untouched *)
CanUnsqueeze1(t) == dim(t) >= 1

unsqueeze1(t) == Tensor(<<t.shape[1], 1>> \o Tail(t.shape), t.data)

\* Tensor.squeeze(): every axis of size 1 dropped
squeeze1_All(t) ==
    Tensor(SelectSeq(t.shape, LAMBDA d : d # 1), t.data)

(* Tensor.squeeze(1): drops axis 1 when its size is 1, nothing else *)
squeeze1(t) ==
    IF dim(t) >= 2 /\ t.shape[2] = 1
    THEN Tensor(<<t.shape[1]>> \o Tail(Tail(t.shape)), t.data)
    ELSE t

\* the tiling done along the batch axis and reshaped, as repeat(M, 1, 1) would
repeat1M1_BatchMajor(t, M) ==
    LET B == t.shape[1]
        K == t.shape[2]
        C == t.shape[3]
    IN  Tensor(<<B, K * M, C>>,
               [i \in 1..(B * K * M * C) |->
                   t.data[(((i - 1) \div C) % (B * K)) * C + ((i - 1) % C) + 1]])

(* Tensor.repeat(1, M, 1) of a rank-3 tensor [B, K, C]: axis 1 tiled M times *)
repeat1M1(t, M) ==
    LET B == t.shape[1]
        K == t.shape[2]
        C == t.shape[3]
    IN  Tensor(<<B, K * M, C>>,
               [i \in 1..(B * K * M * C) |->
                   LET b == (i - 1) \div (K * M * C)
                       j == ((i - 1) \div C) % (K * M)
                       c == (i - 1) % C
                   IN  t.data[b * K * C + (j % K) * C + c + 1]])

(* torch.cat([a, b], dim=2) of rank-3 tensors: the other axes must agree *)
CanCat2(a, b) ==
    /\ dim(a) = 3 /\ dim(b) = 3
    /\ a.shape[1] = b.shape[1]
    /\ a.shape[2] = b.shape[2]

cat2(a, b) ==
    FromRows(<<a.shape[1], a.shape[2]>>, a.shape[3] + b.shape[3],
             [r \in 1..(a.shape[1] * a.shape[2]) |-> Row(a, r) \o Row(b, r)])

(* --------------------------- the layers -------------------------------- *)
\* nn.Linear on one row: y = W x + b
LinearRow(W, b, x) ==
    [k \in 1..Len(W) |-> SumSeq([j \in 1..Len(x) |-> W[k][j] * x[j]]) + b[k]]

\* nn.LayerNorm(hidden_dim) on one row: (x - mean) / sqrt(var + eps), scaled by
\* gamma and shifted by beta.  With c[i] = H * (x[i] - mean) the quotient is
\* c[i] / sqrt(sum(c^2) / H + eps'), rounded down onto the grid.
LayerNormRow(gamma, beta, x) ==
    LET H == Len(x)
        s == SumSeq(x)
        c == [i \in 1..H |-> H * x[i] - s]
        q == SumSeq([i \in 1..H |-> c[i] * c[i]])
        d == ISqrt(q \div H + 1)
    IN  [i \in 1..H |-> gamma[i] * ((Resolution * c[i]) \div d) + beta[i]]

\* nn.ReLU on one row
ReLURow(x) == [i \in 1..Len(x) |-> IF x[i] > 0 THEN x[i] ELSE 0]

\* the modules act along the last dimension of a tensor, row by row
Linear(W, b, t) ==
    FromRows(LeadShape(t), Len(W), [r \in 1..NumRows(t) |-> LinearRow(W, b, Row(t, r))])

LayerNorm(gamma, beta, t) ==
    FromRows(LeadShape(t), LastDim(t),
             [r \in 1..NumRows(t) |-> LayerNormRow(gamma, beta, Row(t, r))])

ReLU(t) ==
    FromRows(LeadShape(t), LastDim(t), [r \in 1..NumRows(t) |-> ReLURow(Row(t, r))])

\* the parameters of nn.Sequential(Linear(in_channels + 2, hidden_dim),
\* LayerNorm(hidden_dim), ReLU(), Linear(hidden_dim, horizon * 2)); the
\* values stand for whatever initialisation or training left in them
Sequential(cin, hid, hor) ==
    [W1    |-> [k \in 1..hid |-> [j \in 1..(cin + 2) |-> ((cin + hor + k + 2 * j) % 5) - 2]],
     b1    |-> [k \in 1..hid |-> ((hor + k) % 3) - 1],
     gamma |-> [k \in 1..hid |-> 1 + ((cin + k) % 2)],
     beta  |-> [k \in 1..hid |-> (hor * k) % 2],
     W2    |-> [k \in 1..(hor * 2) |-> [j \in 1..hid |-> ((2 * cin + 3 * k + j) % 5) - 2]],
     b2    |-> [k \in 1..(hor * 2) |-> ((cin + 2 * k) % 3) - 1]]

\* F.linear rejects an input whose last dimension is not in_features
CanApply(p, input) == dim(input) >= 1 /\ LastDim(input) = Len(p.W1[1])

\* the output Linear left out
ApplySequential_NoHead(p, input) ==
    ReLU(LayerNorm(p.gamma, p.beta, Linear(p.W1, p.b1, input)))

\* self.traj_pred(input)
ApplySequential(p, input) ==
    Linear(p.W2, p.b2, ReLU(LayerNorm(p.gamma, p.beta, Linear(p.W1, p.b1, input))))

(* --------------------------- outcomes ---------------------------------- *)
NoLoss == [shape |-> <<0>>, data |-> <<>>, den |-> 1]

Returned(value) == [status |-> "ok", msg |-> "", loss |-> NoLoss, value |-> value]

Raised(status, msg) == [status |-> status, msg |-> msg, loss |-> NoLoss, value |-> NoTensor]

MsgFeatDim == "[MotionEstimation]: Error dimension in encoded feature input"
MsgFeatChannels == "[MotionEstimation]: Error feature, mismatch in the feature channels!"
MsgLossFeatDim == "[MotionEstimation]: Error in feature input dimension."
MsgLossTrajDim == "[MotionEstimation]: Error in trajectory gt dimension."

\* the channel assertion placed ahead of the rank assertion
forward_ChannelFirst(cin, p, feat_in, loc_in) ==
    IF dim(feat_in) >= 2 /\ feat_in.shape[2] # cin
    THEN Raised("AssertionError", MsgFeatChannels)
    ELSE IF dim(feat_in) # 2 THEN Raised("AssertionError", MsgFeatDim)
    ELSE IF dim(loc_in) # 3
         THEN Raised("ValueError", "unpack loc_in.size()")
    ELSE LET feat == unsqueeze1(feat_in)
             M == loc_in.shape[2]
             rep == IF M > 1 THEN repeat1M1(feat, M) ELSE feat
         IN  IF ~CanCat2(rep, loc_in)
             THEN Raised("RuntimeError", "torch.cat: sizes of tensors must match")
             ELSE IF ~CanApply(p, cat2(rep, loc_in))
             THEN Raised("RuntimeError", "linear: shapes cannot be multiplied")
             ELSE Returned(ApplySequential(p, cat2(rep, loc_in)))

\* the channel assertion left out
forward_NoChannelCheck(cin, p, feat_in, loc_in) ==
    IF dim(feat_in) # 2 THEN Raised("AssertionError", MsgFeatDim)
    ELSE IF dim(loc_in) # 3
         THEN Raised("ValueError", "unpack loc_in.size()")
    ELSE LET feat == unsqueeze1(feat_in)
             M == loc_in.shape[2]
             rep == IF M > 1 THEN repeat1M1(feat, M) ELSE feat
         IN  IF ~CanCat2(rep, loc_in)
             THEN Raised("RuntimeError", "torch.cat: sizes of tensors must match")
             ELSE IF ~CanApply(p, cat2(rep, loc_in))
             THEN Raised("RuntimeError", "linear: shapes cannot be multiplied")
             ELSE Returned(ApplySequential(p, cat2(rep, loc_in)))

(* ---------------------------- forward ---------------------------------- *)
\* MotionEstimation.forward(self, feat_in, loc_in); cin is self.in_channels and
\* p is self.traj_pred
forward(cin, p, feat_in, loc_in) ==
    IF dim(feat_in) # 2 THEN Raised("AssertionError", MsgFeatDim)
    ELSE IF feat_in.shape[2] # cin THEN Raised("AssertionError", MsgFeatChannels)
    ELSE IF dim(loc_in) # 3
         THEN Raised("ValueError", "unpack loc_in.size()")
    ELSE LET feat == unsqueeze1(feat_in)
             M == loc_in.shape[2]
             rep == IF M > 1 THEN repeat1M1(feat, M) ELSE feat
         IN  IF ~CanCat2(rep, loc_in)
             THEN Raised("RuntimeError", "torch.cat: sizes of tensors must match")
             ELSE IF ~CanApply(p, cat2(rep, loc_in))
             THEN Raised("RuntimeError", "linear: shapes cannot be multiplied")
             ELSE Returned(ApplySequential(p, cat2(rep, loc_in)))

(* ------------------------------ loss ----------------------------------- *)
\* torch.broadcast_tensors on two rank-2 tensors, as F.smooth_l1_loss applies
\* it: sizes must agree axis by axis or one of them be 1
CanBroadcast(a, b) ==
    /\ dim(a) = 2 /\ dim(b) = 2
    /\ \A i \in 1..2 : a.shape[i] = b.shape[i] \/ a.shape[i] = 1 \/ b.shape[i] = 1

Max(x, y) == IF x > y THEN x ELSE y

BroadcastShape(a, b) == <<Max(a.shape[1], b.shape[1]), Max(a.shape[2], b.shape[2])>>

expand(t, shape) ==
    Tensor(shape,
           [i \in 1..(shape[1] * shape[2]) |->
               LET r == (i - 1) \div shape[2]
                   c == (i - 1) % shape[2]
                   sr == IF t.shape[1] = 1 THEN 0 ELSE r
                   sc == IF t.shape[2] = 1 THEN 0 ELSE c
               IN  t.data[sr * t.shape[2] + sc + 1]])

\* the squared error alone
smooth_l1_Squared(x, y) == (x - y) * (x - y)

\* the linear branch alone
smooth_l1_LinearOnly(x, y) ==
    2 * Resolution * Abs(x - y) - Resolution * Resolution

\* one element of smooth L1 with beta = 1.0: 0.5 * z^2 if z < 1 else z - 0.5,
\* z = |input - target|; in units of 1 / (2 * Resolution^2)
smooth_l1(x, y) ==
    LET z == Abs(x - y)
    IN  IF z < Resolution THEN z * z ELSE 2 * Resolution * z - Resolution * Resolution

\* F.smooth_l1_loss(input, target, reduction=reduction) on compatible tensors
smooth_l1_loss(input, target, reduction) ==
    LET shape == BroadcastShape(input, target)
        x == expand(input, shape)
        y == expand(target, shape)
        n == shape[1] * shape[2]
        each == [i \in 1..n |-> smooth_l1(x.data[i], y.data[i])]
    IN  CASE reduction = "none" -> [shape |-> shape, data |-> each, den |-> 1]
          [] reduction = "sum"  -> [shape |-> <<>>, data |-> <<SumSeq(each)>>, den |-> 1]
          [] reduction = "mean" -> [shape |-> <<>>, data |-> <<SumSeq(each)>>, den |-> n]

\* the assertion on traj_gt left out
loss_NoTrajCheck(cin, p, feat_in, loc_gt, traj_gt, reduction) ==
    IF dim(feat_in) # 2 THEN Raised("AssertionError", MsgLossFeatDim)
    ELSE IF ~CanUnsqueeze1(loc_gt)
         THEN Raised("IndexError", "unsqueeze: dimension out of range")
    ELSE LET f == forward(cin, p, feat_in, unsqueeze1(loc_gt))
         IN  IF f.status # "ok" THEN f
             ELSE IF ~CanBroadcast(squeeze1(f.value), traj_gt)
             THEN Raised("RuntimeError", "smooth_l1_loss: sizes must match")
             ELSE [status |-> "ok", msg |-> "",
                   loss |-> smooth_l1_loss(squeeze1(f.value), traj_gt, reduction),
                   value |-> squeeze1(f.value)]

\* MotionEstimation.loss(self, feat_in, loc_gt, traj_gt, reduction)
loss(cin, p, feat_in, loc_gt, traj_gt, reduction) ==
    IF dim(feat_in) # 2 THEN Raised("AssertionError", MsgLossFeatDim)
    ELSE IF dim(traj_gt) # 2 THEN Raised("AssertionError", MsgLossTrajDim)
    ELSE IF ~CanUnsqueeze1(loc_gt)
         THEN Raised("IndexError", "unsqueeze: dimension out of range")
    ELSE LET f == forward(cin, p, feat_in, unsqueeze1(loc_gt))
         IN  IF f.status # "ok" THEN f
             ELSE IF ~CanBroadcast(squeeze1(f.value), traj_gt)
             THEN Raised("RuntimeError", "smooth_l1_loss: sizes must match")
             ELSE [status |-> "ok", msg |-> "",
                   loss |-> smooth_l1_loss(squeeze1(f.value), traj_gt, reduction),
                   value |-> squeeze1(f.value)]

\* the candidate axis squeezed out of the result
inference_Squeezed(cin, p, feat_in, loc_in) ==
    LET f == forward(cin, p, feat_in, loc_in)
    IN  IF f.status = "ok" THEN Returned(squeeze1(f.value)) ELSE f

\* MotionEstimation.inference(self, feat_in, loc_in)
inference(cin, p, feat_in, loc_in) == forward(cin, p, feat_in, loc_in)

(* ----------------------------- inputs ---------------------------------- *)
\* entries of a caller's tensor with n elements, within -(Resolution + 1) ..
\* Resolution + 1 on the grid
Fill(n, seed, salt) ==
    [i \in 1..n |-> ((seed * i + salt) % (2 * Resolution + 3)) - (Resolution + 1)]

Randn(shape, seed, salt) == Tensor(shape, Fill(Prod(shape), seed, salt))

FeatShapes ==
    {<<>>} \cup {<<c>> : c \in 1..MaxCh}
           \cup {<<b, c>> : b \in 1..MaxBatch, c \in 1..MaxCh}
           \cup {<<1, 1, 1>>}

LocShapes ==
    {<<>>, <<2>>, <<1, 1, 3>>, <<1, 1, 1, 2>>}
        \cup {<<b, 2>> : b \in 1..MaxBatch}
        \cup {<<b, m, 2>> : b \in 1..MaxBatch, m \in 0..MaxM}

LocGtShapes ==
    {<<>>, <<2>>, <<1, 3>>, <<1, 1, 2>>} \cup {<<b, 2>> : b \in 1..MaxBatch}

TrajShapes(hor) ==
    {<<hor * 2>>, <<1, 1, hor * 2>>}
        \cup {<<b, w>> : b \in 1..MaxBatch, w \in {1, hor * 2, hor * 2 + 1}}

Reductions == {"mean", "sum", "none"}

\* ground-truth trajectories: tensors of every shape above and, where the
\* forward pass succeeds, the prediction itself and targets around it
TrajInputs(hor, cin, p, feat_in, loc_gt, seed) ==
    {Randn(s, seed, 2) : s \in TrajShapes(hor)}
        \cup (IF CanUnsqueeze1(loc_gt) /\ forward(cin, p, feat_in, unsqueeze1(loc_gt)).status = "ok"
              THEN LET pred == squeeze1(forward(cin, p, feat_in, unsqueeze1(loc_gt)).value)
                       off == Fill(Len(pred.data), seed, 2)
                   IN  {pred, Tensor(pred.shape, [i \in 1..Len(pred.data) |-> pred.data[i] + off[i]])}
              ELSE {})

(* --------------------------- the machine ------------------------------- *)
NoCall == [op |-> "", feat_in |-> NoTensor, loc_in |-> NoTensor,
           traj_gt |-> NoTensor, reduction |-> ""]

NoRet == Raised("", "")

\* MotionEstimation.__init__(in_channels, horizon, hidden_dim)
Init ==
    /\ in_channels \in 1..MaxCh
    /\ horizon \in 1..MaxHorizon
    /\ hidden_dim \in 1..MaxHidden
    /\ traj_pred = Sequential(in_channels, hidden_dim, horizon)
    /\ built = [in_channels |-> in_channels, horizon |-> horizon,
                hidden_dim |-> hidden_dim, traj_pred |-> traj_pred]
    /\ pc = "ready"
    /\ call = NoCall
    /\ ret = NoRet
    /\ ncalls = 0

\* layer(feat_in, loc_in)
Forward ==
    /\ pc = "ready"
    /\ ncalls < MaxCalls
    /\ ncalls' = ncalls + 1
    /\ \E fseed \in 1..NumSeeds, lseed \in 1..NumSeeds, fs \in FeatShapes, ls \in LocShapes :
          LET feat_in == Randn(fs, fseed, 0)
              loc_in == Randn(ls, lseed, 1)
          IN  /\ call' = [op |-> "forward", feat_in |-> feat_in, loc_in |-> loc_in,
                          traj_gt |-> NoTensor, reduction |-> ""]
              /\ ret' = forward(in_channels, traj_pred, feat_in, loc_in)
    /\ pc' = "returned"
    /\ UNCHANGED <<in_channels, horizon, hidden_dim, traj_pred, built>>

\* loss taking an optimisation step on the parameters
Loss_Trains ==
    /\ pc = "ready"
    /\ ncalls < MaxCalls
    /\ ncalls' = ncalls + 1
    /\ \E seed \in 1..NumSeeds, fs \in FeatShapes, ls \in LocGtShapes, reduction \in Reductions :
          LET feat_in == Randn(fs, seed, 0)
              loc_gt == Randn(ls, seed, 1)
          IN  \E traj_gt \in TrajInputs(horizon, in_channels, traj_pred, feat_in, loc_gt, seed) :
                /\ call' = [op |-> "loss", feat_in |-> feat_in, loc_in |-> loc_gt,
                            traj_gt |-> traj_gt, reduction |-> reduction]
                /\ ret' = loss(in_channels, traj_pred, feat_in, loc_gt, traj_gt, reduction)
                /\ traj_pred' = IF ret'.status = "ok"
                                THEN [traj_pred EXCEPT !.b2 = [k \in DOMAIN @ |-> @[k] - 1]]
                                ELSE traj_pred
    /\ pc' = "returned"
    /\ UNCHANGED <<in_channels, horizon, hidden_dim, built>>

\* layer.loss(feat_in, loc_gt, traj_gt, reduction)
Loss ==
    /\ pc = "ready"
    /\ ncalls < MaxCalls
    /\ ncalls' = ncalls + 1
    /\ \E seed \in 1..NumSeeds, fs \in FeatShapes, ls \in LocGtShapes, reduction \in Reductions :
          LET feat_in == Randn(fs, seed, 0)
              loc_gt == Randn(ls, seed, 1)
          IN  \E traj_gt \in TrajInputs(horizon, in_channels, traj_pred, feat_in, loc_gt, seed) :
                /\ call' = [op |-> "loss", feat_in |-> feat_in, loc_in |-> loc_gt,
                            traj_gt |-> traj_gt, reduction |-> reduction]
                /\ ret' = loss(in_channels, traj_pred, feat_in, loc_gt, traj_gt, reduction)
    /\ pc' = "returned"
    /\ UNCHANGED <<in_channels, horizon, hidden_dim, traj_pred, built>>

\* layer.inference(feat_in, loc_in)
Inference ==
    /\ pc = "ready"
    /\ ncalls < MaxCalls
    /\ ncalls' = ncalls + 1
    /\ \E fseed \in 1..NumSeeds, lseed \in 1..NumSeeds, fs \in FeatShapes, ls \in LocShapes :
          LET feat_in == Randn(fs, fseed, 0)
              loc_in == Randn(ls, lseed, 1)
          IN  /\ call' = [op |-> "inference", feat_in |-> feat_in, loc_in |-> loc_in,
                          traj_gt |-> NoTensor, reduction |-> ""]
              /\ ret' = inference(in_channels, traj_pred, feat_in, loc_in)
    /\ pc' = "returned"
    /\ UNCHANGED <<in_channels, horizon, hidden_dim, traj_pred, built>>

\* the caller takes the outcome (the value or the exception) and goes on
Return ==
    /\ pc = "returned"
    /\ pc' = "ready"
    /\ call' = NoCall
    /\ ret' = NoRet
    /\ UNCHANGED <<in_channels, horizon, hidden_dim, traj_pred, built, ncalls>>

Next == Forward \/ Loss \/ Inference \/ Return

Spec == Init /\ [][Next]_vars

(* ======================= properties of the layer ======================= *)
Done(op) == pc = "returned" /\ call.op = op

\* the documented inputs: feat_in [batch, in_channels], loc_in [batch, M, 2]
FeatOk == dim(call.feat_in) = 2 /\ call.feat_in.shape[2] = in_channels

LocOk ==
    /\ dim(call.loc_in) = 3
    /\ call.loc_in.shape[2] >= 1
    /\ call.loc_in.shape[3] = 2
    /\ dim(call.feat_in) = 2 => call.loc_in.shape[1] = call.feat_in.shape[1]

\* loc_gt [batch, 2]
LocGtOk ==
    /\ dim(call.loc_in) = 2
    /\ call.loc_in.shape[2] = 2
    /\ dim(call.feat_in) = 2 => call.loc_in.shape[1] = call.feat_in.shape[1]

\* traj_gt [batch, horizon * 2]
TrajOk ==
    /\ dim(call.traj_gt) = 2
    /\ call.traj_gt.shape[2] = horizon * 2
    /\ dim(call.feat_in) = 2 => call.traj_gt.shape[1] = call.feat_in.shape[1]

RankMismatch(r) ==
    r.status = "AssertionError" /\ r.msg \in {MsgFeatDim, MsgLossFeatDim, MsgLossTrajDim}

ChannelMismatch(r) == r.status = "AssertionError" /\ r.msg = MsgFeatChannels

NoResult(r) == r.value = NoTensor /\ r.loss = NoLoss

\* C1: forward on feat_in [batch, in_channels] and loc_in [batch, M, 2], M >= 1,
\* returns a tensor of shape exactly [batch, M, horizon * 2].
C1_OutputShape ==
    (Done("forward") /\ FeatOk /\ LocOk) =>
        /\ ret.status = "ok"
        /\ ret.value.shape = <<call.feat_in.shape[1], call.loc_in.shape[2], horizon * 2>>
        /\ Len(ret.value.data) = call.feat_in.shape[1] * call.loc_in.shape[2] * horizon * 2

C1_Witness ==
    /\ Done("forward") /\ FeatOk /\ LocOk
    /\ call.feat_in.shape[1] > 1
    /\ call.loc_in.shape[2] > 1
    /\ ret.value.shape = <<call.feat_in.shape[1], call.loc_in.shape[2], horizon * 2>>

\* the shared transform on one concatenated row of width in_channels + 2
TransformRow(p, x) ==
    LinearRow(p.W2, p.b2,
              ReLURow(LayerNormRow(p.gamma, p.beta, LinearRow(p.W1, p.b1, x))))

\* C2: every output row [b, m] of forward is the shared transform of feat_in[b]
\* concatenated with loc_in[b, m], on the M = 1 path and on the M > 1 path
\* alike, whatever the other candidates and batch items are.
C2_RowIdentity ==
    (Done("forward") /\ FeatOk /\ LocOk) =>
        /\ ret.status = "ok"
        /\ \A b \in 1..call.feat_in.shape[1] : \A m \in 1..call.loc_in.shape[2] :
              LET r == (b - 1) * call.loc_in.shape[2] + m
              IN  Row(ret.value, r)
                    = TransformRow(traj_pred, Row(call.feat_in, b) \o Row(call.loc_in, r))

C2_Witness ==
    /\ Done("forward") /\ FeatOk /\ LocOk /\ ret.status = "ok"
    /\ call.feat_in.shape[1] > 1
    /\ call.loc_in.shape[2] > 1
    /\ Row(call.feat_in, 1) # Row(call.feat_in, 2)
    /\ Row(ret.value, 1) # Row(ret.value, 2)
    /\ Row(ret.value, 1) # Row(ret.value, call.loc_in.shape[2] + 1)

\* C3: forward on a feature whose rank is not 2 fails with the rank error, on a
\* rank-2 feature of the wrong width with the channel error; the rank is
\* checked first and no result is produced.
C3_ForwardRejects ==
    Done("forward") =>
        /\ dim(call.feat_in) # 2 =>
              ret = Raised("AssertionError", MsgFeatDim) /\ NoResult(ret)
        /\ (dim(call.feat_in) = 2 /\ call.feat_in.shape[2] # in_channels) =>
              ret = Raised("AssertionError", MsgFeatChannels) /\ NoResult(ret)

C3_Witness ==
    /\ Done("forward")
    /\ dim(call.feat_in) = 3
    /\ call.feat_in.shape[2] # in_channels
    /\ ret = Raised("AssertionError", MsgFeatDim)

\* C4 as stated: loss on a feature or a traj_gt whose rank is not 2 fails with
\* the rank error before the forward pass, and a rank-2 feature of the wrong
\* width (traj_gt of rank 2) fails through forward's channel check.
C4_LossRejects_AsStated ==
    Done("loss") =>
        /\ dim(call.feat_in) # 2 =>
              ret = Raised("AssertionError", MsgLossFeatDim) /\ NoResult(ret)
        /\ (dim(call.feat_in) = 2 /\ dim(call.traj_gt) # 2) =>
              ret = Raised("AssertionError", MsgLossTrajDim) /\ NoResult(ret)
        /\ (dim(call.feat_in) = 2 /\ dim(call.traj_gt) = 2
               /\ call.feat_in.shape[2] # in_channels) =>
              ChannelMismatch(ret) /\ NoResult(ret)

\* C4, amended: as above, the channel check being reached when loc_gt has at
\* least one dimension (unsqueeze(1) of a 0-dim loc_gt raises before forward
\* is entered).
C4_LossRejects ==
    Done("loss") =>
        /\ dim(call.feat_in) # 2 =>
              ret = Raised("AssertionError", MsgLossFeatDim) /\ NoResult(ret)
        /\ (dim(call.feat_in) = 2 /\ dim(call.traj_gt) # 2) =>
              ret = Raised("AssertionError", MsgLossTrajDim) /\ NoResult(ret)
        /\ (dim(call.feat_in) = 2 /\ dim(call.traj_gt) = 2
               /\ call.feat_in.shape[2] # in_channels /\ dim(call.loc_in) >= 1) =>
              ChannelMismatch(ret) /\ NoResult(ret)

C4_Witness ==
    /\ Done("loss")
    /\ dim(call.feat_in) = 2 /\ dim(call.traj_gt) = 2
    /\ call.feat_in.shape[2] # in_channels
    /\ dim(call.loc_in) = 1
    /\ ChannelMismatch(ret)

\* the documented call of loss that returns
LossOk == Done("loss") /\ FeatOk /\ LocGtOk /\ TrajOk

\* 0.5 * d^2 if |d| < 1, else |d| - 0.5, for d = e / Resolution, in units of
\* 1 / (2 * Resolution^2)
Discrepancy(e) ==
    IF Abs(e) < Resolution THEN e * e
    ELSE 2 * Resolution * Abs(e) - Resolution * Resolution

Discrepancies == [i \in 1..Len(ret.value.data) |->
                     Discrepancy(ret.value.data[i] - call.traj_gt.data[i])]

\* C5: the loss is the element-wise smooth-L1 discrepancy between the
\* [batch, horizon * 2] prediction and traj_gt: the per-element tensor for
\* 'none', its sum for 'sum', its sum over batch * horizon * 2 for 'mean';
\* both branches give 0.5 at |d| = 1.
C5_SmoothL1 ==
    LossOk =>
        /\ ret.status = "ok"
        /\ call.reduction = "none" =>
              ret.loss = [shape |-> <<call.feat_in.shape[1], horizon * 2>>,
                          data |-> Discrepancies, den |-> 1]
        /\ call.reduction = "sum" =>
              ret.loss = [shape |-> <<>>, data |-> <<SumSeq(Discrepancies)>>, den |-> 1]
        /\ call.reduction = "mean" =>
              ret.loss = [shape |-> <<>>, data |-> <<SumSeq(Discrepancies)>>,
                          den |-> call.feat_in.shape[1] * horizon * 2]
        /\ \A i \in 1..Len(ret.value.data) :
              Abs(ret.value.data[i] - call.traj_gt.data[i]) = Resolution =>
                  /\ Discrepancies[i] = Resolution * Resolution
                  /\ Discrepancies[i] = (ret.value.data[i] - call.traj_gt.data[i])
                                          * (ret.value.data[i] - call.traj_gt.data[i])

C5_Witness ==
    /\ LossOk /\ ret.status = "ok" /\ call.reduction = "mean"
    /\ \E i \in 1..Len(ret.value.data) :
          Abs(ret.value.data[i] - call.traj_gt.data[i]) = Resolution
    /\ \E i \in 1..Len(ret.value.data) :
          Abs(ret.value.data[i] - call.traj_gt.data[i]) > Resolution
    /\ \E i \in 1..Len(ret.value.data) :
          /\ Abs(ret.value.data[i] - call.traj_gt.data[i]) < Resolution
          /\ ret.value.data[i] # call.traj_gt.data[i]

\* C6: the loss is >= 0 for every reduction (every element for 'none'), and 0
\* exactly when the prediction equals traj_gt element-wise.
C6_LossLowerBound ==
    LossOk =>
        /\ ret.status = "ok"
        /\ \A i \in 1..Len(ret.loss.data) : ret.loss.data[i] >= 0
        /\ (\A i \in 1..Len(ret.loss.data) : ret.loss.data[i] = 0)
              <=> ret.value = call.traj_gt

C6_Witness ==
    /\ LossOk /\ ret.status = "ok"
    /\ ret.value = call.traj_gt
    /\ \E i \in 1..Len(ret.value.data) : ret.value.data[i] # 0
    /\ ret.loss.data = <<0>>

\* the candidate axis of a [batch, 1, w] tensor removed
DropCandidateAxis(t) == Tensor(<<t.shape[1], t.shape[3]>>, t.data)

\* C7: the prediction returned by loss is forward(feat_in, loc_gt with a
\* candidate axis of size 1) without that axis, of shape [batch, horizon * 2]
\* also for batch = 1; with reduction 'mean' the loss is a single scalar.
C7_LossPrediction ==
    LossOk =>
        /\ ret.status = "ok"
        /\ LET out == forward(in_channels, traj_pred, call.feat_in,
                              Tensor(<<call.loc_in.shape[1], 1, 2>>, call.loc_in.data))
           IN  out.status = "ok" /\ ret.value = DropCandidateAxis(out.value)
        /\ ret.value.shape = <<call.feat_in.shape[1], horizon * 2>>
        /\ call.reduction = "mean" => ret.loss.shape = <<>> /\ Len(ret.loss.data) = 1

C7_Witness ==
    /\ LossOk /\ ret.status = "ok"
    /\ call.feat_in.shape[1] = 1
    /\ call.reduction = "mean"
    /\ ret.value.shape = <<1, horizon * 2>>

\* C8: inference returns exactly what forward returns on the same inputs, and
\* fails with exactly the same error.
C8_InferenceIsForward ==
    Done("inference") =>
        ret = forward(in_channels, traj_pred, call.feat_in, call.loc_in)

C8_Witness ==
    /\ Done("inference") /\ FeatOk /\ LocOk
    /\ ret.status = "ok"
    /\ call.loc_in.shape[2] = 1
    /\ ret.value.shape = <<call.feat_in.shape[1], 1, horizon * 2>>

\* what a call returns on a layer with the given configuration and parameters
Outcome(b, c) ==
    CASE c.op = "forward" -> forward(b.in_channels, b.traj_pred, c.feat_in, c.loc_in)
      [] c.op = "inference" -> inference(b.in_channels, b.traj_pred, c.feat_in, c.loc_in)
      [] c.op = "loss" ->
            loss(b.in_channels, b.traj_pred, c.feat_in, c.loc_in, c.traj_gt, c.reduction)

\* C9: whatever calls were made, the configuration and the parameters are those
\* of construction, so a call returns what the same call returns on the layer
\* as constructed.
C9_Stateless ==
    /\ in_channels = built.in_channels
    /\ horizon = built.horizon
    /\ hidden_dim = built.hidden_dim
    /\ traj_pred = built.traj_pred
    /\ pc = "returned" => ret = Outcome(built, call)

C9_Witness ==
    /\ pc = "returned"
    /\ ncalls >= 2
    /\ ret.status = "ok"
    /\ traj_pred = built.traj_pred

\* C10 as stated: every call returns or fails with RankMismatch or
\* ChannelMismatch, whatever the ranks and shapes of its tensors.
C10_Taxonomy_AsStated ==
    pc = "returned" => ret.status = "ok" \/ RankMismatch(ret) \/ ChannelMismatch(ret)

\* C10, amended: the same for a feature and a traj_gt of any rank, when the
\* locations are [batch, M, 2] with M >= 1 (loc_gt [batch, 2]) and a rank-2
\* traj_gt is [batch, horizon * 2], batch being that of a rank-2 feature.
C10_Taxonomy ==
    /\ (Done("forward") \/ Done("inference")) /\ LocOk =>
          ret.status = "ok" \/ RankMismatch(ret) \/ ChannelMismatch(ret)
    /\ (Done("loss") /\ LocGtOk /\ (dim(call.traj_gt) = 2 => TrajOk)) =>
          ret.status = "ok" \/ RankMismatch(ret) \/ ChannelMismatch(ret)

C10_Witness ==
    /\ Done("loss") /\ LocGtOk
    /\ dim(call.feat_in) = 2 /\ call.feat_in.shape[2] # in_channels
    /\ TrajOk
    /\ ChannelMismatch(ret)

====
